---- MODULE Spec2Model ----
(***************************************************************************)
(* libaio-futures (src/src/lib.rs): Linux AIO behind futures.              *)
(*                                                                         *)
(* Parties of the model:                                                   *)
(*   - the submitter, which owns the AIOManager (read, write, drop);       *)
(*   - the awaiters, one per AIOFuture (poll, drop);                       *)
(*   - the worker thread spawned by AIOManager::start;                     *)
(*   - the kernel AIO context (io_submit, completion, io_getevents).       *)
(* The registry AIONotifier::waiting is a map under one mutex: every       *)
(* registry operation is one atomic step.  A panic ends the thread that    *)
(* raised it; the model keeps the thread in the state "panicked".          *)
(***************************************************************************)
EXTENDS Integers, Sequences, FiniteSets

\* ---------------------------------------------------------------- bounds
\* Number of operations the submitter issues while every awaiter is followed
\* (Spec, FairSpec).
MaxOps == 2
\* Number of identifiers (0 .. MaxIds-1): the operations the submitter issues
\* when the batches are followed (SchedSpec).
MaxIds == 3
\* AIOBuilder::max_events: slots of the kernel context.
MaxEvents == 1
\* AIOBuilder::max_nbatched: cap of one io_submit batch.
MaxNBatched == 2
\* AIOBuilder::max_nwait: cap of one io_getevents reap.
MaxNWait == 1
\* Number of distinct task wakers an awaiter may poll with.
NumWakers == 2

\* ------------------------------------------------------------- constants
\* const LIBAIO_EAGAIN = -libc::EAGAIN (EAGAIN is 11 on Linux).
LIBAIO_EAGAIN == -11
\* Negative io_submit returns other than EAGAIN the kernel produces here: -EBADF.
IoSubmitErrors == {-9}

Ids == 0 .. (MaxIds - 1)
Wakers == 1 .. NumWakers
\* A descriptor open in the process, and one that is not.
Fds == {"open", "invalid"}
OpenFds == {"open"}
\* Buffers a caller hands to write, and lengths it asks of read.
WriteBufs == {<<7, 8>>}
ReadFds == OpenFds
ReadLens == {1}
\* The signed res of a completion event: a byte count, or a negated errno (-EIO).
ResVals == {-5, 2}

VARIABLES
    waiting,      \* AIONotifier::waiting: HashMap<u64, AIOState>
    last_id,      \* AIOBatchSchedulerIn::last_id
    queue,        \* the submission channel (queue_in -> queue_out)
    leftover,     \* AIOBatchSchedulerOut::leftover
    ongoing,      \* the worker's local `ongoing`
    events,       \* the reaped events the worker still has to dispatch
    workerPc,     \* the worker's position in the loop of AIOManager::start
    mgr,          \* the AIOManager: alive, in drop (sending, joining), dropped
    handle,       \* each AIOFuture: none, live, ready, dropped, panicked
    got,          \* what AIOFuture::poll returned in Poll::Ready
    polledWith,   \* id -> the waker of the most recent poll of that future
    woken,        \* id -> the waker finish invoked
    iocb,         \* id -> the control block built by AIO::new
    handed,       \* id -> the buffer given to the operation at read/write
    reported,     \* id -> the res the worker passed to finish
    stalled,      \* the control blocks some io_submit call refused with EAGAIN
    refused,      \* head of a refused batch -> the negative return of io_submit
    kinflight,    \* kernel: control blocks accepted and not yet completed
    kevents,      \* kernel: completion events not yet reaped
    io_ctx        \* kernel: the AIO context behind AIONotifier::io_ctx

vars == <<waiting, last_id, queue, leftover, ongoing, events, workerPc, mgr, handle, got, polledWith, woken, iocb, handed, reported,
          stalled, refused, kinflight, kevents, io_ctx>>

\* ------------------------------------------------------------ data model
NoRet == [tag |-> "None", val |-> <<>>]
\* The empty map (HashMap::new()).
EmptyMap == [k \in {} |-> 0]

\* AIOResult = Result<(usize, Box<[u8]>), i32>
Ok(n, buf) == [tag |-> "Ok", val |-> <<n, buf>>]
Err(e) == [tag |-> "Err", val |-> <<e>>]

\* AIOState
FutureInit(aio, dropped) == [st |-> "Init", aio |-> aio, dropped |-> dropped]
FuturePending(aio, waker, dropped) ==
    [st |-> "Pending", aio |-> aio, waker |-> waker, dropped |-> dropped]
FutureDone(ret) == [st |-> "Done", ret |-> ret]

\* HashMap::insert and HashMap::remove on the registry map.
Insert(w, id, v) == [k \in (DOMAIN w) \cup {id} |-> IF k = id THEN v ELSE w[k]]
Remove(w, id) == [k \in (DOMAIN w) \ {id} |-> w[k]]

\* AIO::new: the record owns the data buffer and the control block; the control
\* block (kept on the heap, variable iocb) is addressed by the identifier.
AIO_new(id, data) == [id |-> id, data |-> data, iocb |-> id]
\* The control block AIO::new fills in.
IOCb(id, fd, opcode) == [aio_fildes |-> fd, aio_lio_opcode |-> opcode, aio_data |-> id]

\* ------------------------------------------------- AIONotifier (registry)
\* register_notify that stores nothing.
register_notify_forgets(w, id, state) ==
    [waiting |-> w, panic |-> FALSE]

\* register_notify: assert!(waiting.insert(id, state).is_none()).
register_notify(w, id, state) ==
    [waiting |-> Insert(w, id, state), panic |-> id \in DOMAIN w]

\* dropped that discards the entry at once, whatever its state.
dropped_removes_live_entry(w, id) ==
    IF id \notin DOMAIN w THEN w ELSE Remove(w, id)

\* dropped: Init and Pending entries get their flag set and stay; a Done entry
\* is removed; an absent entry is left alone.
dropped(w, id) ==
    IF id \notin DOMAIN w THEN w
    ELSE CASE w[id].st = "Init" -> Insert(w, id, FutureInit(w[id].aio, TRUE))
           [] w[id].st = "Pending" ->
                Insert(w, id, FuturePending(w[id].aio, w[id].waker, TRUE))
           [] w[id].st = "Done" -> Remove(w, id)

\* poll that hands out the result of a Done entry and leaves the entry in place.
poll_keeps_done_entry(w, id, waker) ==
    IF id \notin DOMAIN w
    THEN [waiting |-> w, ret |-> NoRet, panic |-> TRUE]
    ELSE CASE w[id].st = "Init" ->
                [waiting |-> Insert(w, id, FuturePending(w[id].aio, waker, FALSE)),
                 ret |-> NoRet, panic |-> FALSE]
           [] w[id].st = "Pending" ->
                [waiting |-> Insert(w, id,
                     FuturePending(w[id].aio, w[id].waker, w[id].dropped)),
                 ret |-> NoRet, panic |-> FALSE]
           [] w[id].st = "Done" ->
                [waiting |-> w, ret |-> w[id].ret, panic |-> FALSE]

\* poll: the entry is removed and matched.  In the Pending arm the pattern binds
\* the name `waker` to the waker stored in the entry, which shadows the
\* parameter: the entry is put back with the waker it already held.
poll(w, id, waker) ==
    IF id \notin DOMAIN w
    THEN [waiting |-> w, ret |-> NoRet, panic |-> TRUE]        \* unreachable!()
    ELSE CASE w[id].st = "Init" ->
                [waiting |-> Insert(w, id, FuturePending(w[id].aio, waker, FALSE)),
                 ret |-> NoRet, panic |-> FALSE]
           [] w[id].st = "Pending" ->
                [waiting |-> Insert(w, id,
                     FuturePending(w[id].aio, w[id].waker, w[id].dropped)),
                 ret |-> NoRet, panic |-> FALSE]
           [] w[id].st = "Done" ->
                [waiting |-> Remove(w, id), ret |-> w[id].ret, panic |-> FALSE]

\* The result with the errno left negative (Err(res as i32)).
finish_result_keeps_sign(aio, res) ==
    IF res >= 0 THEN Ok(res, aio.data) ELSE Err(res)

\* The AIOResult finish builds: Ok((res as usize, aio.data.take().unwrap())) for
\* res >= 0, Err(-res as i32) otherwise.  Both casts keep the value for every
\* res the kernel reports (a byte count, or a negated errno above -4096).
finish_result(aio, res) ==
    IF res >= 0 THEN Ok(res, aio.data) ELSE Err(-res)

\* finish that does not look at the dropped flag.
finish_ignores_dropped(w, id, res) ==
    IF id \notin DOMAIN w
    THEN [waiting |-> w, wake |-> {}, panic |-> TRUE]
    ELSE CASE w[id].st = "Init" ->
                [waiting |-> Insert(w, id, FutureDone(finish_result(w[id].aio, res))),
                 wake |-> {}, panic |-> FALSE]
           [] w[id].st = "Pending" ->
                [waiting |-> Insert(w, id, FutureDone(finish_result(w[id].aio, res))),
                 wake |-> {w[id].waker}, panic |-> FALSE]
           [] w[id].st = "Done" ->
                [waiting |-> Insert(w, id, FutureDone(w[id].ret)),
                 wake |-> {}, panic |-> FALSE]

\* finish with the wake issued before the result is stored: the Pending entry
\* is put back as it was and the waker is invoked.
finish_wake_without_done(w, id, res) ==
    IF id \notin DOMAIN w
    THEN [waiting |-> w, wake |-> {}, panic |-> TRUE]
    ELSE CASE w[id].st = "Init" ->
                [waiting |-> IF w[id].dropped THEN Remove(w, id)
                             ELSE Insert(w, id, FutureDone(finish_result(w[id].aio, res))),
                 wake |-> {}, panic |-> FALSE]
           [] w[id].st = "Pending" ->
                [waiting |-> IF w[id].dropped THEN Remove(w, id) ELSE w,
                 wake |-> IF w[id].dropped THEN {} ELSE {w[id].waker},
                 panic |-> FALSE]
           [] w[id].st = "Done" ->
                [waiting |-> Insert(w, id, FutureDone(w[id].ret)),
                 wake |-> {}, panic |-> FALSE]

\* finish: the entry is removed and matched.  `wake` is the set of wakers
\* invoked (waker.wake()), while the mutex is held and after the insert.
finish(w, id, res) ==
    IF id \notin DOMAIN w
    THEN [waiting |-> w, wake |-> {}, panic |-> TRUE]          \* unreachable!()
    ELSE CASE w[id].st = "Init" ->
                [waiting |-> IF w[id].dropped THEN Remove(w, id)
                             ELSE Insert(w, id, FutureDone(finish_result(w[id].aio, res))),
                 wake |-> {}, panic |-> FALSE]
           [] w[id].st = "Pending" ->
                [waiting |-> IF w[id].dropped THEN Remove(w, id)
                             ELSE Insert(w, id, FutureDone(finish_result(w[id].aio, res))),
                 wake |-> IF w[id].dropped THEN {} ELSE {w[id].waker},
                 panic |-> FALSE]
           [] w[id].st = "Done" ->
                [waiting |-> Insert(w, id, FutureDone(w[id].ret)),
                 wake |-> {}, panic |-> FALSE]

\* ------------------------------------------------------------- the kernel
Min(a, b) == IF a < b THEN a ELSE b

\* Free slots of the context: a slot is taken from io_submit's acceptance until
\* the completion event is reaped by io_getevents.
FreeSlots == MaxEvents - Cardinality(kinflight) - Len(kevents)

\* The control blocks of a batch the kernel takes: the longest prefix of valid
\* control blocks that fits the free slots.
RECURSIVE AcceptCount(_, _)
AcceptCount(batch, free) ==
    IF batch = <<>> \/ free = 0 \/ iocb[Head(batch)].aio_fildes \notin OpenFds
    THEN 0
    ELSE 1 + AcceptCount(Tail(batch), free - 1)

\* io_submit(ctx, n, iocbpp) for n > 0: the returns it can make.  -EAGAIN
\* when no slot is free, a negated errno when the first control block is
\* refused (-EBADF), the number of control blocks taken otherwise.
io_submit(batch) ==
    IF FreeSlots = 0 THEN {LIBAIO_EAGAIN}
    ELSE IF iocb[Head(batch)].aio_fildes \notin OpenFds THEN IoSubmitErrors
    ELSE {AcceptCount(batch, FreeSlots)}

\* ------------------------------------------------- AIOBatchSchedulerOut
is_empty(lo) == Len(lo) = 0

\* The batch that receives one item more than the quota allows.
submit_pending_over_quota(lo, q) ==
    IF Len(lo) < MaxNBatched
    THEN lo \o SubSeq(q, 1, Min(MaxNBatched - Len(lo) + 1, Len(q)))
    ELSE lo

\* The batch with the newly received items put before the leftover.
submit_pending_queue_first(lo, q) ==
    IF Len(lo) < MaxNBatched
    THEN SubSeq(q, 1, Min(MaxNBatched - Len(lo), Len(q))) \o lo
    ELSE lo

\* The batch submit builds: the leftover, then, if the leftover is below the
\* quota, items received without blocking until the quota is used up.
submit_pending(lo, q) ==
    IF Len(lo) < MaxNBatched
    THEN lo \o SubSeq(q, 1, Min(MaxNBatched - Len(lo), Len(q)))
    ELSE lo

\* submit that keeps no leftover: what io_submit did not take is forgotten.
submit_forgets_rejected(lo, q, ret) ==
    LET pending == submit_pending(lo, q)
        rest == SubSeq(q, Len(pending) - Len(lo) + 1, Len(q))
        r == IF ret < 0 /\ ret = LIBAIO_EAGAIN THEN 0 ELSE ret
    IN IF r < 0 \/ r > Len(pending)
       THEN [nacc |-> 0, leftover |-> lo, queue |-> rest, accepted |-> {},
             panic |-> TRUE]
       ELSE [nacc |-> r,
             leftover |-> <<>>,
             queue |-> rest,
             accepted |-> {pending[k] : k \in 1 .. r},
             panic |-> FALSE]

\* submit, given the return ret of io_submit (0 when the batch is empty and no
\* call is made).  `ret as usize` of a negative ret other than EAGAIN is beyond
\* the batch's length and &pending[nacc..] panics.
submit(lo, q, ret) ==
    LET pending == submit_pending(lo, q)
        rest == SubSeq(q, Len(pending) - Len(lo) + 1, Len(q))
        r == IF ret < 0 /\ ret = LIBAIO_EAGAIN THEN 0 ELSE ret
    IN IF r < 0 \/ r > Len(pending)
       THEN [nacc |-> 0, leftover |-> lo, queue |-> rest, accepted |-> {},
             panic |-> TRUE]
       ELSE [nacc |-> r,
             leftover |-> SubSeq(pending, r + 1, Len(pending)),
             queue |-> rest,
             accepted |-> {pending[k] : k \in 1 .. r},
             panic |-> FALSE]

\* ------------------------------------------------------------------ Init
\* The state after AIOBuilder::build succeeded: the context set up by
\* io_setup, an empty registry, an empty channel, the worker at the top of its
\* loop.  AIOContext wraps the raw context pointer and has no Drop: no step of
\* the program changes io_ctx.
Init ==
    /\ waiting = EmptyMap
    /\ last_id = 0
    /\ queue = <<>>
    /\ leftover = <<>>
    /\ ongoing = 0
    /\ events = <<>>
    /\ workerPc = "top"
    /\ mgr = "alive"
    /\ handle = [i \in Ids |-> "none"]
    /\ got = [i \in Ids |-> NoRet]
    /\ polledWith = EmptyMap
    /\ woken = EmptyMap
    /\ iocb = EmptyMap
    /\ handed = EmptyMap
    /\ reported = EmptyMap
    /\ stalled = {}
    /\ refused = EmptyMap
    /\ kinflight = {}
    /\ kevents = <<>>
    /\ io_ctx = "set up"

\* ------------------------------------------------------------- submitter
\* AIOBatchSchedulerIn::next_id: the identifier handed out (the counter wraps
\* at 2^64, far above MaxOps).
next_id == last_id

\* AIOBatchSchedulerIn::schedule, after AIO::new: register the Init entry, send
\* the control block's address, return the future.  With the worker gone the
\* receiver is dropped, send fails and unwrap panics: the future built before
\* is dropped by the unwinding.
schedule(fd, data, opcode) ==
    /\ mgr = "alive"
    /\ last_id < MaxIds
    /\ LET id == next_id
           r == register_notify(waiting, id, FutureInit(AIO_new(id, data), FALSE))
           dead == workerPc \in {"exited", "panicked"}
       IN /\ last_id' = last_id + 1
          /\ iocb' = Insert(iocb, id, IOCb(id, fd, opcode))
          /\ handed' = Insert(handed, id, data)
          /\ IF r.panic \/ dead
             THEN /\ mgr' = "panicked"
                  /\ waiting' = dropped(r.waiting, id)
                  /\ handle' = [handle EXCEPT ![id] = "dropped"]
                  /\ queue' = queue
             ELSE /\ mgr' = mgr
                  /\ waiting' = r.waiting
                  /\ handle' = [handle EXCEPT ![id] = "live"]
                  /\ queue' = Append(queue, id)
    /\ UNCHANGED <<io_ctx, leftover, ongoing, events, workerPc, got, polledWith,
                   woken, reported, stalled, refused, kinflight, kevents>>

\* AIOManager::write: the caller's buffer.
write(fd, data) == schedule(fd, data, "PWrite")

\* AIOManager::read: a zeroed buffer of the length asked.
read(fd, length) == schedule(fd, [k \in 1 .. length |-> 0], "PRead")

\* Drop for AIOManager: send on the rendezvous channel (blocks until the worker
\* receives; fails at once with the worker gone), then join.
MgrDrop ==
    /\ mgr = "alive"
    /\ mgr' = IF workerPc = "panicked" THEN "panicked" ELSE "sending"
    /\ UNCHANGED <<io_ctx, waiting, last_id, queue, leftover, ongoing, events, workerPc,
                   handle, got, polledWith, woken, iocb, handed, reported,
                   stalled, refused, kinflight, kevents>>

\* listener.join() returns once the worker thread has ended.
MgrJoin ==
    /\ mgr = "joining"
    /\ workerPc = "exited"
    /\ mgr' = "dropped"
    /\ UNCHANGED <<io_ctx, waiting, last_id, queue, leftover, ongoing, events, workerPc,
                   handle, got, polledWith, woken, iocb, handed, reported,
                   stalled, refused, kinflight, kevents>>

\* --------------------------------------------------------------- awaiter
\* AIOFuture::poll with the task's waker.  A poll of a future that already
\* returned Ready finds no entry and panics.
Poll(i, waker) ==
    /\ handle[i] \in {"live", "ready"}
    /\ LET r == poll(waiting, i, waker)
       IN /\ waiting' = r.waiting
          /\ polledWith' = Insert(polledWith, i, waker)
          /\ handle' = [handle EXCEPT ![i] =
                            IF r.panic THEN "panicked"
                            ELSE IF r.ret # NoRet THEN "ready" ELSE @]
          /\ got' = [got EXCEPT ![i] = IF r.ret # NoRet THEN r.ret ELSE @]
    /\ UNCHANGED <<io_ctx, last_id, queue, leftover, ongoing, events, workerPc, mgr, woken, iocb, handed, reported, stalled, refused, kinflight,
                   kevents>>

\* Drop for AIOFuture.
DropFuture(i) ==
    /\ handle[i] \in {"live", "ready"}
    /\ waiting' = dropped(waiting, i)
    /\ handle' = [handle EXCEPT ![i] = "dropped"]
    /\ UNCHANGED <<io_ctx, last_id, queue, leftover, ongoing, events, workerPc, mgr, got, polledWith, woken, iocb, handed, reported, stalled,
                   refused, kinflight, kevents>>

\* ---------------------------------------------------------------- worker
\* The top of the loop with an exit that does not look at ongoing or leftover.
WorkerQuiesce_exits_busy ==
    /\ workerPc = "top"
    /\ \/ /\ ~(ongoing = 0 /\ is_empty(leftover))
          /\ workerPc' = "submit"
          /\ mgr' = mgr
       \/ /\ ongoing = 0 /\ is_empty(leftover)
          /\ queue # <<>>
          /\ workerPc' = "submit"
          /\ mgr' = mgr
       \/ /\ mgr = "sending"
          /\ workerPc' = "exited"
          /\ mgr' = "joining"
    /\ UNCHANGED <<io_ctx, waiting, last_id, queue, leftover, ongoing, events,
                   handle, got, polledWith, woken, iocb, handed, reported,
                   stalled, refused, kinflight, kevents>>

\* The top of the loop with the select entered on every round.
WorkerQuiesce_selects_always ==
    /\ workerPc = "top"
    /\ \/ /\ queue # <<>>
          /\ workerPc' = "submit"
          /\ mgr' = mgr
       \/ /\ mgr = "sending"
          /\ workerPc' = "exited"
          /\ mgr' = "joining"
    /\ UNCHANGED <<io_ctx, waiting, last_id, queue, leftover, ongoing, events,
                   handle, got, polledWith, woken, iocb, handed, reported,
                   stalled, refused, kinflight, kevents>>

\* The top of the loop: with nothing ongoing and no leftover the worker blocks
\* in the select until the exit channel or the submission channel is ready;
\* ready() picks any ready one.  Index 0 is the exit channel: receive and break.
WorkerQuiesce ==
    /\ workerPc = "top"
    /\ \/ /\ ~(ongoing = 0 /\ is_empty(leftover))
          /\ workerPc' = "submit"
          /\ mgr' = mgr
       \/ /\ ongoing = 0 /\ is_empty(leftover)
          /\ queue # <<>>
          /\ workerPc' = "submit"
          /\ mgr' = mgr
       \/ /\ ongoing = 0 /\ is_empty(leftover)
          /\ mgr = "sending"
          /\ workerPc' = "exited"
          /\ mgr' = "joining"
    /\ UNCHANGED <<io_ctx, waiting, last_id, queue, leftover, ongoing, events, handle, got, polledWith, woken, iocb, handed, reported,
                   stalled, refused, kinflight, kevents>>

\* The submit loop without its break: the next round follows at once, whatever
\* was accepted.
WorkerSubmit_retries_at_once ==
    /\ workerPc = "submit"
    /\ \E ret \in (IF submit_pending(leftover, queue) = <<>> THEN {0}
                   ELSE io_submit(submit_pending(leftover, queue))) :
         LET r == submit(leftover, queue, ret)
         IN /\ queue' = r.queue
            /\ leftover' = r.leftover
            /\ ongoing' = ongoing + r.nacc
            /\ kinflight' = kinflight \cup r.accepted
            /\ workerPc' = IF r.panic THEN "panicked" ELSE "submit"
            /\ mgr' = IF r.panic /\ mgr = "sending" THEN "panicked" ELSE mgr
            /\ stalled' = IF ret = LIBAIO_EAGAIN
                          THEN stalled \cup {r.leftover[k] : k \in 1 .. Len(r.leftover)}
                          ELSE stalled
            /\ refused' = IF r.panic
                          THEN Insert(refused, Head(submit_pending(leftover, queue)), ret)
                          ELSE refused
    /\ UNCHANGED <<io_ctx, waiting, last_id, events, handle, got, polledWith,
                   woken, iocb, handed, reported, kevents>>

\* One round of the submit loop: scheduler_out.submit, ongoing += nacc, and out
\* of the loop when nothing was accepted.  A panic of submit ends the thread
\* and drops the receivers, which fails a send the manager is blocked in.
WorkerSubmit ==
    /\ workerPc = "submit"
    /\ \E ret \in (IF submit_pending(leftover, queue) = <<>> THEN {0}
                   ELSE io_submit(submit_pending(leftover, queue))) :
         LET r == submit(leftover, queue, ret)
         IN /\ queue' = r.queue
            /\ leftover' = r.leftover
            /\ ongoing' = ongoing + r.nacc
            /\ kinflight' = kinflight \cup r.accepted
            /\ workerPc' = IF r.panic THEN "panicked"
                           ELSE IF r.nacc = 0 THEN "reap" ELSE "submit"
            /\ mgr' = IF r.panic /\ mgr = "sending" THEN "panicked" ELSE mgr
            /\ stalled' = IF ret = LIBAIO_EAGAIN
                          THEN stalled \cup {r.leftover[k] : k \in 1 .. Len(r.leftover)}
                          ELSE stalled
            /\ refused' = IF r.panic
                          THEN Insert(refused, Head(submit_pending(leftover, queue)), ret)
                          ELSE refused
    /\ UNCHANGED <<io_ctx, waiting, last_id, events, handle, got, polledWith,
                   woken, iocb, handed, reported, kevents>>

\* After the submit loop: nothing ongoing, back to the top; otherwise
\* io_getevents(ctx, 1, max_nwait, ..), which blocks until an event is there
\* or, when AIOBuilder::timeout is set, until it expires and 0 is returned.  The
\* third disjunct is that return; a worker built without a timeout takes the
\* second one only.
WorkerReap ==
    /\ workerPc = "reap"
    /\ \/ /\ ongoing = 0
          /\ workerPc' = "top"
          /\ UNCHANGED <<ongoing, events, kevents>>
       \/ /\ ongoing # 0
          /\ kevents # <<>>
          /\ LET ret == Min(Len(kevents), MaxNWait)
             IN /\ events' = SubSeq(kevents, 1, ret)
                /\ kevents' = SubSeq(kevents, ret + 1, Len(kevents))
                /\ ongoing' = ongoing - ret
          /\ workerPc' = "dispatch"
       \/ /\ ongoing # 0
          /\ kevents = <<>>
          /\ workerPc' = "top"
          /\ UNCHANGED <<ongoing, events, kevents>>
    /\ UNCHANGED <<io_ctx, waiting, last_id, queue, leftover, mgr, handle, got,
                   polledWith, woken, iocb, handed, reported, stalled, refused,
                   kinflight>>

\* for ev in events: n.finish(ev.data, ev.res), one registry call per step.
WorkerDispatch ==
    /\ workerPc = "dispatch"
    /\ LET ev == Head(events)
           r == finish(waiting, ev.data, ev.res)
       IN /\ waiting' = r.waiting
          /\ woken' = IF r.wake = {} THEN woken
                      ELSE Insert(woken, ev.data, CHOOSE x \in r.wake : TRUE)
          /\ reported' = Insert(reported, ev.data, ev.res)
          /\ events' = Tail(events)
          /\ workerPc' = IF r.panic THEN "panicked"
                         ELSE IF Tail(events) = <<>> THEN "top" ELSE "dispatch"
          /\ mgr' = IF r.panic /\ mgr = "sending" THEN "panicked" ELSE mgr
    /\ UNCHANGED <<io_ctx, last_id, queue, leftover, ongoing, handle, got,
                   polledWith, iocb, handed, stalled, refused, kinflight, kevents>>

\* ---------------------------------------------------------------- kernel
\* The kernel completes an accepted operation, in any order, with a byte count
\* or a negated errno, and echoes the control block's aio_data.
KernelComplete(i, res) ==
    /\ i \in kinflight
    /\ kinflight' = kinflight \ {i}
    /\ kevents' = Append(kevents, [data |-> iocb[i].aio_data, res |-> res])
    /\ UNCHANGED <<io_ctx, waiting, last_id, queue, leftover, ongoing, events, workerPc,
                   mgr, handle, got, polledWith, woken, iocb, handed,
                   reported, stalled, refused>>

\* ------------------------------------------------------------------ Next
Worker == WorkerQuiesce \/ WorkerSubmit \/ WorkerReap \/ WorkerDispatch

Next ==
    \/ last_id < MaxOps /\ \E fd \in Fds, data \in WriteBufs : write(fd, data)
    \/ last_id < MaxOps /\ \E fd \in ReadFds, length \in ReadLens : read(fd, length)
    \/ MgrDrop
    \/ MgrJoin
    \/ \E i \in Ids, waker \in Wakers : Poll(i, waker)
    \/ \E i \in Ids : DropFuture(i)
    \/ WorkerQuiesce
    \/ WorkerSubmit
    \/ WorkerReap
    \/ WorkerDispatch
    \/ \E i \in Ids, res \in ResVals : KernelComplete(i, res)

Spec == Init /\ [][Next]_vars

\* The same program with a caller that writes to open descriptors only.
NextOpenFd ==
    \/ last_id < MaxOps /\ \E fd \in OpenFds, data \in WriteBufs : write(fd, data)
    \/ MgrDrop
    \/ MgrJoin
    \/ \E i \in Ids, waker \in Wakers : Poll(i, waker)
    \/ \E i \in Ids : DropFuture(i)
    \/ WorkerQuiesce
    \/ WorkerSubmit
    \/ WorkerReap
    \/ WorkerDispatch
    \/ \E i \in Ids, res \in ResVals : KernelComplete(i, res)

\* The same program with one more operation and awaiters that all poll with
\* the same waker: the runs in which a leftover and newly queued control blocks
\* meet in one batch.
NextSched ==
    \/ \E fd \in Fds, data \in WriteBufs : write(fd, data)
    \/ MgrDrop
    \/ MgrJoin
    \/ \E i \in Ids : Poll(i, NumWakers)
    \/ \E i \in Ids : DropFuture(i)
    \/ WorkerQuiesce
    \/ WorkerSubmit
    \/ WorkerReap
    \/ WorkerDispatch
    \/ \E i \in Ids, res \in ResVals : KernelComplete(i, res)

SchedSpec == Init /\ [][NextSched]_vars

\* AIONotifier::finish on its own: the worker is about to call finish(id, res)
\* and the registry holds, for each identifier, no entry or an entry in any
\* state AIOState has.
EntryStates(i) ==
    {FutureInit(AIO_new(i, data), d) : data \in WriteBufs, d \in BOOLEAN}
    \cup {FuturePending(AIO_new(i, x[1]), x[2], x[3]) :
              x \in WriteBufs \X Wakers \X BOOLEAN}
    \cup {FutureDone(finish_result(AIO_new(i, x[1]), x[2])) : x \in WriteBufs \X ResVals}
Registries ==
    UNION {{w \in [S -> UNION {EntryStates(i) : i \in S}] :
                \A i \in S : w[i] \in EntryStates(i)} : S \in SUBSET Ids}
InitFinish ==
    /\ waiting \in Registries
    /\ \E i \in Ids, res \in ResVals : events = <<[data |-> i, res |-> res]>>
    /\ workerPc = "dispatch"
    /\ last_id = MaxIds
    /\ queue = <<>>
    /\ leftover = <<>>
    /\ ongoing = 0
    /\ mgr = "alive"
    /\ handle = [i \in Ids |-> "none"]
    /\ got = [i \in Ids |-> NoRet]
    /\ polledWith = EmptyMap
    /\ woken = EmptyMap
    /\ iocb = EmptyMap
    /\ handed = EmptyMap
    /\ reported = EmptyMap
    /\ stalled = {}
    /\ refused = EmptyMap
    /\ kinflight = {}
    /\ kevents = <<>>
    /\ io_ctx = "set up"

FinishSpec == InitFinish /\ [][WorkerDispatch]_vars

\* Scheduling: the worker thread runs whenever it has a step, the kernel
\* completes every operation it accepted, join returns once the thread ended,
\* and a future that is kept is polled again.
Fairness ==
    /\ WF_vars(Worker)
    /\ WF_vars(\E i \in Ids, res \in ResVals : KernelComplete(i, res))
    /\ WF_vars(MgrJoin)
    /\ \A i \in Ids : WF_vars(handle[i] = "live" /\ \E waker \in Wakers : Poll(i, waker))

FairSpec == Init /\ [][Next]_vars /\ Fairness

FairSpecOpenFd == Init /\ [][NextOpenFd]_vars /\ Fairness

\* ---------------------------------------------------------- vocabulary
\* The worker called finish for i.
Finished(i) == i \in DOMAIN reported
\* The kernel took i's control block in some io_submit call.
Accepted(i) ==
    \/ i \in kinflight
    \/ \E k \in 1 .. Len(kevents) : kevents[k].data = i
    \/ \E k \in 1 .. Len(events) : events[k].data = i
    \/ Finished(i)
\* i's control block is on the channel or in the leftover.
Unsubmitted(i) ==
    \/ \E k \in 1 .. Len(queue) : queue[k] = i
    \/ \E k \in 1 .. Len(leftover) : leftover[k] = i
EntryIs(i, st) == i \in DOMAIN waiting /\ waiting[i].st = st

\* ------------------------------------------------------------------- C1
\* C1: polls and finish for one identifier never lose the completion.  When
\* finish has invoked the stored waker of a future that is still awaited, the
\* entry is Done; once finish has run (from Init or from Pending) the next poll
\* of the future returns Ready; and after a poll returned a result no later
\* poll of that identifier returns one.
C1_DoneWhenWoken ==
    \A i \in Ids :
        (Finished(i) /\ handle[i] = "live") => EntryIs(i, "Done")
C1_WokenOnlyAfterFinish ==
    \A i \in DOMAIN woken : Finished(i)
C1_PollAfterFinishIsReady ==
    \A i \in Ids, waker \in Wakers :
        (Poll(i, waker) /\ Finished(i) /\ handle[i] = "live")
            => (handle'[i] = "ready" /\ got'[i] # NoRet /\ i \notin DOMAIN waiting')
C1_ResultAtMostOnce ==
    \A i \in Ids, waker \in Wakers :
        (Poll(i, waker) /\ got[i] # NoRet)
            => (handle'[i] = "panicked" /\ got'[i] = got[i])
C1_NoLostWakeup ==
    /\ [](C1_DoneWhenWoken /\ C1_WokenOnlyAfterFinish)
    /\ [][C1_PollAfterFinishIsReady /\ C1_ResultAtMostOnce]_vars
\* A parked future was woken by finish and then polled to Ready.
C1_Witness ==
    \E i \in Ids : i \in DOMAIN woken /\ handle[i] = "ready" /\ got[i] # NoRet

\* ------------------------------------------------------------------- C2
\* C2: a completion with result res, for an operation whose future is kept,
\* makes the future yield Ok(res, the buffer handed in at read/write) when
\* res >= 0 and Err(-res), a positive errno, when res < 0; what poll returns is
\* what finish stored in the Done entry.
C2_Expected(i) ==
    IF reported[i] >= 0
    THEN [tag |-> "Ok", val |-> <<reported[i], handed[i]>>]
    ELSE [tag |-> "Err", val |-> <<0 - reported[i]>>]
C2_ResultOfCompletion ==
    \A i \in Ids :
        /\ got[i] # NoRet =>
             /\ Finished(i)
             /\ got[i] = C2_Expected(i)
             /\ got[i].tag = "Err" => got[i].val[1] > 0
        /\ EntryIs(i, "Done") =>
             /\ Finished(i)
             /\ waiting[i].ret = C2_Expected(i)
\* One future resolved to Ok and another to Err.
C2_Witness ==
    \E i, j \in Ids : got[i].tag = "Ok" /\ got[j].tag = "Err"

\* ------------------------------------------------------------------- C3
\* C3: from registration until the worker calls finish for it, an operation's
\* record (buffer and control block) is owned by its registry entry, which is
\* Init or Pending, whatever polls and drop happen; dropping the future before
\* completion sets the entry's flag and touches neither the record nor the
\* control blocks queued or in the kernel.
C3_RecordOwned ==
    \A i \in DOMAIN handed :
        ~Finished(i) =>
            /\ i \in DOMAIN waiting
            /\ waiting[i].st \in {"Init", "Pending"}
            /\ waiting[i].aio = [id |-> i, data |-> handed[i], iocb |-> i]
C3_DropSetsFlagOnly ==
    \A i \in Ids :
        (DropFuture(i) /\ i \in DOMAIN handed /\ ~Finished(i)) =>
            /\ i \in DOMAIN waiting'
            /\ waiting'[i].dropped
            /\ waiting'[i].st = waiting[i].st
            /\ waiting'[i].aio = waiting[i].aio
            /\ UNCHANGED <<queue, leftover, kinflight, kevents, events, ongoing>>
C3_RecordPinnedUntilFinish ==
    /\ []C3_RecordOwned
    /\ [][C3_DropSetsFlagOnly]_vars
\* A future that was polled and then dropped while its operation is in the kernel.
C3_Witness ==
    \E i \in Ids :
        /\ handle[i] = "dropped"
        /\ i \in kinflight
        /\ EntryIs(i, "Pending")
        /\ waiting[i].dropped

\* ------------------------------------------------------------------- C4
\* C4: with more operations submitted than the context has slots, and a
\* kernel that completes what it accepted, every control block is eventually
\* accepted by io_submit and every future that is kept and polled eventually
\* resolves.  Stated for the operations the claim is about: the future of an
\* operation that io_submit refused with EAGAIN, kept and polled, eventually
\* resolves.
C4_RefusedWithEagainResolves ==
    \A i \in Ids :
        (i \in stalled /\ handle[i] = "live") ~> (handle[i] \in {"ready", "dropped"})

\* What holds of the backpressure itself (under FairSpecOpenFd): a control
\* block refused with EAGAIN stays in the leftover or on the channel, and it is
\* accepted and its kept future resolves unless the worker was told to shut
\* down and exited with the control block still on the channel.
C4_NoneLost ==
    \A i \in DOMAIN handed : Accepted(i) \/ Unsubmitted(i)
C4_NoDeadlockOnEagain ==
    /\ []C4_NoneLost
    /\ \A i \in Ids : Unsubmitted(i) ~> (Accepted(i) \/ workerPc = "exited")
    /\ \A i \in Ids :
         (handle[i] = "live")
             ~> (handle[i] # "live" \/ (workerPc = "exited" /\ Unsubmitted(i)))
    /\ \A i \in Ids : (i \in stalled) ~> Accepted(i)
\* A control block that io_submit refused with EAGAIN, whose future resolved.
C4_Resolved_after_EAGAIN ==
    \E i \in stalled : handle[i] = "ready" /\ got[i] # NoRet

\* ------------------------------------------------------------------- C5
\* C5: a write on an invalid descriptor makes its future resolve to Err(errno)
\* with errno > 0, whether io_submit refuses the batch it heads with a negative
\* return other than EAGAIN or the completion event carries a negative res:
\* once either has happened, a future still awaited finds Done(Err(errno)).
C5_Failed(i) ==
    \/ i \in DOMAIN refused
    \/ Finished(i) /\ reported[i] < 0
C5_InvalidFdResolvesToErr ==
    \A i \in Ids :
        (C5_Failed(i) /\ handle[i] = "live") =>
            /\ EntryIs(i, "Done")
            /\ waiting[i].ret.tag = "Err"
            /\ waiting[i].ret.val[1] > 0

\* ------------------------------------------------------------------- C6
\* C6: a poll of a Pending entry with another waker replaces the stored waker
\* and keeps the dropped flag, so the waker a later finish invokes is the one
\* of the most recent poll: a Pending entry holds the waker last polled with.
C6_StoredWakerIsLatest ==
    \A i \in DOMAIN waiting :
        waiting[i].st = "Pending" =>
            /\ i \in DOMAIN polledWith
            /\ waiting[i].waker = polledWith[i]

\* ------------------------------------------------------------------- C8
\* C8: after the shutdown signal the worker keeps looping until ongoing == 0
\* and the submission queue is drained: when the worker thread has exited, no
\* control block sent before the signal is left on the channel or in the
\* leftover.
C8_ExitsOnlyWhenDrained ==
    workerPc = "exited" =>
        /\ ongoing = 0
        /\ leftover = <<>>
        /\ queue = <<>>

\* ------------------------------------------------------------------- C7
\* C7: with several operations outstanding and some futures dropped, at any
\* point, every remaining future that is kept and polled still resolves, and a
\* manager shutdown after that completes.
C7_RemainingResolveAndShutdown ==
    /\ \A j \in Ids :
         (handle[j] = "live" /\ \E i \in Ids \ {j} : handle[i] = "dropped")
             ~> (handle[j] \in {"ready", "dropped"})
    /\ (mgr = "sending" /\ \E i \in Ids : handle[i] = "dropped") ~> (mgr = "dropped")

\* What holds of the drops themselves (under FairSpecOpenFd): they do not kill
\* the worker, and the other futures resolve unless the worker was told to
\* shut down and exited with the control block still on the channel.
C7_DropsLeaveOthersAlone ==
    /\ [](workerPc # "panicked")
    /\ \A j \in Ids :
         (handle[j] = "live" /\ \E i \in Ids \ {j} : handle[i] = "dropped")
             ~> (handle[j] # "live" \/ (workerPc = "exited" /\ Unsubmitted(j)))
    /\ (mgr = "sending" /\ \E i \in Ids : handle[i] = "dropped") ~> (mgr = "dropped")
\* One future was dropped before its completion was dispatched, another
\* resolved after that, and the manager was shut down.
C7_Resolved_beside_dropped ==
    \E i, j \in Ids :
        /\ handle[i] = "dropped" /\ Finished(i) /\ got[i] = NoRet
        /\ handle[j] = "ready" /\ got[j] # NoRet
        /\ mgr = "dropped"

\* ------------------------------------------------------------------- C9
\* C9: dropping the manager terminates, with no work pending and with
\* operations outstanding: the worker receives the signal and join returns; and
\* when the worker has exited, finish has been called for every operation the
\* kernel accepted.
C9_AcceptedAreFinishedAtExit ==
    workerPc = "exited" => \A i \in Ids : Accepted(i) => Finished(i)
C9_ShutdownTerminates ==
    /\ (mgr = "sending") ~> (mgr = "dropped")
    /\ []C9_AcceptedAreFinishedAtExit
    /\ [](mgr = "dropped" => workerPc = "exited")
\* C9_ShutdownTerminates holds under FairSpecOpenFd, where no io_submit call
\* is refused.  There the shutdown signal can be sent while an operation is in
\* the kernel and the worker waits in io_getevents:
C9_Shutdown_while_outstanding ==
    mgr = "sending" /\ ongoing > 0 /\ workerPc = "reap" /\ kinflight # {}

\* ------------------------------------------------------------------ C10
\* C10: every registered identifier whose future is polled to Ready or dropped
\* ends with no entry in the registry, the entry being removed once, by poll on
\* Done, by dropped on Done or by finish on a flagged entry; dropping a future
\* whose entry is gone changes nothing.
C10_ReadyMeansRemoved ==
    \A i \in Ids : handle[i] = "ready" => i \notin DOMAIN waiting
C10_RemovedByOneOfThree ==
    \A i \in DOMAIN waiting :
        i \notin DOMAIN waiting' =>
            \/ EntryIs(i, "Done") /\ \E waker \in Wakers : Poll(i, waker)
            \/ EntryIs(i, "Done") /\ DropFuture(i)
            \/ /\ waiting[i].st \in {"Init", "Pending"}
               /\ waiting[i].dropped
               /\ WorkerDispatch
               /\ Head(events).data = i
C10_NeverBack ==
    \A i \in DOMAIN handed : i \notin DOMAIN waiting => i \notin DOMAIN waiting'
C10_LateDropIsNoop ==
    \A i \in Ids : (DropFuture(i) /\ i \notin DOMAIN waiting) => waiting' = waiting
C10_RemovalIsOnce ==
    /\ []C10_ReadyMeansRemoved
    /\ [][C10_RemovedByOneOfThree /\ C10_NeverBack /\ C10_LateDropIsNoop]_vars
C10_EveryEntryRemovedOnce ==
    /\ C10_RemovalIsOnce
    /\ \A i \in Ids : (handle[i] \in {"ready", "dropped"}) ~> (i \notin DOMAIN waiting)

\* What holds of the removals (under FairSpecOpenFd): they happen once and in
\* the three ways, and the entry of a dropped future goes unless the worker
\* was told to shut down and exited with the control block still on the
\* channel.
C10_RemovedWhileWorkerRuns ==
    /\ C10_RemovalIsOnce
    /\ \A i \in Ids :
         (handle[i] = "dropped" /\ i \in DOMAIN waiting)
             ~> (i \notin DOMAIN waiting \/ (workerPc = "exited" /\ Unsubmitted(i)))
\* One future polled to Ready and then dropped, another dropped first and
\* its entry removed by finish.
C10_Removed_both_ways ==
    \E i, j \in Ids :
        /\ handle[i] = "dropped" /\ got[i] # NoRet /\ i \notin DOMAIN waiting
        /\ handle[j] = "dropped" /\ got[j] = NoRet /\ Finished(j)
        /\ j \notin DOMAIN waiting

\* ------------------------------------------------------------------ C11
\* C11: control blocks reach io_submit in the order they were put on the
\* channel (the order of their identifiers: one submitter numbers and sends
\* them).  While the worker runs, the control blocks the kernel has taken are
\* the first ones sent, and the leftover followed by the channel holds all the
\* others, in order: none is taken twice, none is passed over.  Each call of
\* submit hands the kernel a prefix of that sequence and keeps the rest, the
\* leftover in front.
AcceptedIds == {i \in DOMAIN handed : Accepted(i)}
C11_InOrder ==
    workerPc # "panicked" =>
        LET todo == leftover \o queue
            n == Cardinality(AcceptedIds)
        IN /\ AcceptedIds = 0 .. (n - 1)
           /\ Len(todo) = last_id - n
           /\ \A k \in 1 .. Len(todo) : todo[k] = n + k - 1
C11_BatchStep ==
    (WorkerSubmit /\ workerPc' # "panicked") =>
        LET todo == leftover \o queue
            n == ongoing' - ongoing
        IN /\ kinflight' \ kinflight = {todo[k] : k \in 1 .. n}
           /\ leftover' \o queue' = SubSeq(todo, n + 1, Len(todo))
           /\ Len(leftover') >= Len(leftover) - n
C11_SubmittedInQueueOrder ==
    /\ []C11_InOrder
    /\ [][C11_BatchStep]_vars
\* A control block refused with EAGAIN went first in a later batch that also
\* held a newly received one: it was taken, the new one is the leftover.
C11_Leftover_went_first ==
    \E i \in stalled, j \in Ids :
        /\ j = i + 1
        /\ Accepted(i)
        /\ leftover = <<j>>
        /\ j \notin stalled

\* ------------------------------------------------------------------ C12
\* C12: the kernel context made by io_setup is destroyed when its owner is
\* dropped: once the manager is dropped, the worker thread has exited and no
\* future is left (every clone of the Arc<AIONotifier> is gone), the context
\* no longer exists.
C12_ContextDestroyedAfterShutdown ==
    (/\ mgr = "dropped"
     /\ workerPc = "exited"
     /\ \A i \in Ids : handle[i] \notin {"live", "ready"})
        => io_ctx = "destroyed"

\* ------------------------------------------------------------------ C13
\* C13: the Init entry is registered before the control block is sent, and
\* nothing removes an entry before its completion, so every control block on
\* its way (on the channel, in the leftover, in the kernel, in a reaped event)
\* has an entry in state Init or Pending, every finish the worker issues finds
\* such an entry, and the worker never panics in finish (it panics in submit
\* only).
C13_Underway(i) == Unsubmitted(i) \/ (Accepted(i) /\ ~Finished(i))
C13_UnderwayAreRegistered ==
    \A i \in Ids : C13_Underway(i) => (EntryIs(i, "Init") \/ EntryIs(i, "Pending"))
C13_FinishFindsEntry ==
    WorkerDispatch =>
        /\ ~Finished(Head(events).data)
        /\ EntryIs(Head(events).data, "Init") \/ EntryIs(Head(events).data, "Pending")
C13_AbsentBranchUnreachable ==
    /\ []C13_UnderwayAreRegistered
    /\ [][C13_FinishFindsEntry]_vars
    /\ [](workerPc = "panicked" => DOMAIN refused # {})
\* finish has run for an entry that was polled (Pending) and for one that was
\* never polled (Init) and whose future was dropped before the completion.
C13_Finished_Init_and_Pending ==
    \E i, j \in Ids :
        /\ Finished(i) /\ i \in DOMAIN woken
        /\ Finished(j) /\ j \notin DOMAIN polledWith /\ handle[j] = "dropped"
        /\ j \notin DOMAIN waiting

C15_Flagged(i) ==
    /\ EntryIs(i, "Init") \/ EntryIs(i, "Pending")
    /\ waiting[i].dropped
C15_FinishDiscards ==
    (WorkerDispatch /\ C15_Flagged(Head(events).data)) =>
        /\ waiting' = Remove(waiting, Head(events).data)
        /\ woken' = woken
        /\ workerPc' # "panicked"
C15_NoResultForDropped ==
    \A i \in Ids :
        (Finished(i) /\ handle[i] = "dropped") => i \notin DOMAIN waiting
C15_DroppedEntryDiscardedSilently ==
    /\ [][C15_FinishDiscards]_vars
    /\ []C15_NoResultForDropped
\* A future polled once (a waker is stored) and dropped before the completion,
\* for which finish has run: no entry, no wake.
C15_Pending_dropped_finished ==
    \E i \in Ids :
        /\ Finished(i)
        /\ handle[i] = "dropped"
        /\ i \in DOMAIN polledWith
        /\ got[i] = NoRet
        /\ i \notin DOMAIN woken
        /\ i \notin DOMAIN waiting

\* ------------------------------------------------------------------ C16
\* C16: whatever io_submit returns, the submit step goes on with
\* k = max(0, ret): ongoing grows by k, the kernel has taken the first k
\* control blocks of the batch, and the leftover is the rest of the batch (all
\* of it when k = 0).  So ongoing is the number of control blocks accepted and
\* not yet reaped, and is never negative.
C16_SubmitStep ==
    WorkerSubmit =>
        LET batch == submit_pending(leftover, queue)
            k == ongoing' - ongoing
        IN /\ workerPc' \in {"submit", "reap"}
           /\ k >= 0
           /\ kinflight' \ kinflight = {batch[j] : j \in 1 .. k}
           /\ leftover' = SubSeq(batch, k + 1, Len(batch))
C16_OngoingIsInFlight ==
    /\ ongoing >= 0
    /\ ongoing = Cardinality(kinflight) + Len(kevents)
C16_OngoingTracksEveryReturn ==
    /\ [][C16_SubmitStep]_vars
    /\ []C16_OngoingIsInFlight

\* ------------------------------------------------------------------ C17
\* C17: the batch of a submit step is the whole leftover followed by the
\* items taken from the channel, as many as are there and fit: it holds at
\* most max_nbatched control blocks; an empty batch is not passed to io_submit
\* (nothing is accepted, refused or stalled); what the kernel did not take is
\* the new leftover, which never exceeds max_nbatched.
C17_BatchStep ==
    WorkerSubmit =>
        LET drained == Len(queue) - Len(queue')
            batch == leftover \o SubSeq(queue, 1, drained)
        IN /\ drained = Min(MaxNBatched - Len(leftover), Len(queue))
           /\ queue' = SubSeq(queue, drained + 1, Len(queue))
           /\ Len(batch) <= MaxNBatched
           /\ batch = <<>> =>
                  /\ UNCHANGED <<kinflight, stalled, refused, ongoing>>
                  /\ workerPc' = "reap"
           /\ workerPc' # "panicked" =>
                  leftover' = SubSeq(batch, ongoing' - ongoing + 1, Len(batch))
C17_BatchWithinQuota ==
    /\ [][C17_BatchStep]_vars
    /\ [](Len(leftover) <= MaxNBatched)
\* Three control blocks were on the channel and the batch took two of them,
\* its quota: the kernel took the first, the second is the leftover and the
\* third is still on the channel.
C17_Quota_cut_the_batch ==
    /\ workerPc = "submit"
    /\ kinflight = {0}
    /\ leftover = <<1>>
    /\ queue = <<2>>
    /\ stalled = {}

\* ------------------------------------------------------------------ C18
\* C18: the submit loop runs its next round at once only after a round that
\* accepted something.  After a round that accepted nothing (EAGAIN) with
\* operations ongoing, the worker goes to io_getevents, and the next call of
\* submit comes only after that call has returned (with events, or with none
\* on a timeout) and the worker is back at the top of its loop.
C18_SubmitStep ==
    WorkerSubmit =>
        \/ ongoing' > ongoing /\ workerPc' = "submit"
        \/ ongoing' = ongoing /\ workerPc' \in {"reap", "panicked"}
C18_OutOfReapByGetevents ==
    (workerPc = "reap" /\ ongoing > 0 /\ workerPc' # "reap") =>
        /\ WorkerReap
        /\ workerPc' \in {"dispatch", "top"}
        /\ UNCHANGED <<queue, leftover, kinflight, stalled, refused>>
C18_IntoSubmitFromTop ==
    (workerPc # "submit" /\ workerPc' = "submit") => (workerPc = "top" /\ WorkerQuiesce)
C18_StallUntilReap ==
    [][C18_SubmitStep /\ C18_OutOfReapByGetevents /\ C18_IntoSubmitFromTop]_vars
\* io_submit refused the leftover with EAGAIN while an operation was ongoing:
\* the worker is in io_getevents and a completion event is there to reap.
C18_Stalled_in_getevents ==
    /\ workerPc = "reap"
    /\ ongoing > 0
    /\ leftover # <<>>
    /\ \A k \in 1 .. Len(leftover) : leftover[k] \in stalled
    /\ kevents # <<>>

\* ------------------------------------------------------------------ C19
\* C19: the worker waits only where something can come.  It is blocked at the
\* top of its loop (in the select) only with ongoing == 0 and an empty
\* leftover, and then the kernel holds nothing of it; with ongoing == 0 it
\* skips io_getevents; and when it is in io_getevents (ongoing > 0) the kernel
\* holds an operation in flight or an event to reap.
C19_BlockedInSelect ==
    (workerPc = "top" /\ ~ENABLED WorkerQuiesce) =>
        /\ ongoing = 0
        /\ is_empty(leftover)
        /\ kinflight = {}
        /\ kevents = <<>>
C19_InGetevents ==
    (workerPc = "reap" /\ ongoing # 0) => (kinflight # {} \/ kevents # <<>>)
C19_NoGeteventsWhenIdle ==
    (WorkerReap /\ ongoing = 0) =>
        /\ workerPc' = "top"
        /\ kinflight = {}
        /\ UNCHANGED <<events, kevents, ongoing>>
C19_WaitsOnlyForWhatCanCome ==
    /\ []C19_BlockedInSelect
    /\ []C19_InGetevents
    /\ [][C19_NoGeteventsWhenIdle]_vars
\* The worker is blocked in the select, the manager alive and the channel
\* empty, after it has dispatched the completion of every operation.
C19_Idle_in_select ==
    /\ workerPc = "top"
    /\ ~ENABLED WorkerQuiesce
    /\ mgr = "alive"
    /\ last_id > 0
    /\ \A i \in DOMAIN handed : Finished(i)

\* ------------------------------------------------------------------ C20
\* C20: the worker leaves its loop at the quiesce step only, on the shutdown
\* signal: when it exits, ongoing == 0, the leftover is empty and the kernel
\* holds no control block and no event of it; a shutdown signal sent while
\* operations are in flight is received only after all of them were reaped.
C20_Quiet ==
    /\ ongoing = 0
    /\ leftover = <<>>
    /\ events = <<>>
    /\ kinflight = {}
    /\ kevents = <<>>
C20_ExitStep ==
    (workerPc # "exited" /\ workerPc' = "exited") =>
        /\ WorkerQuiesce
        /\ workerPc = "top"
        /\ mgr = "sending" /\ mgr' = "joining"
        /\ C20_Quiet
C20_SignalReceivedAtQuiesce ==
    (mgr = "sending" /\ mgr' = "joining") => (C20_Quiet /\ workerPc' = "exited")
C20_ExitsOnlyWhenQuiet ==
    /\ [][C20_ExitStep /\ C20_SignalReceivedAtQuiesce]_vars
    /\ [](workerPc = "exited" => C20_Quiet)
    /\ []((mgr = "sending" /\ ongoing > 0) => workerPc # "exited")
\* The manager is blocked in the send of the shutdown signal, the worker is at
\* the top of its loop with an operation in flight, after it dispatched
\* another one: the signal stays unreceived.
C20_Signal_pending_at_top ==
    /\ mgr = "sending"
    /\ workerPc = "top"
    /\ ongoing > 0
    /\ kinflight # {}
    /\ \E i \in Ids : Finished(i)

====
